---- MODULE Spec2Model ----
(***************************************************************************)
(* tfio: rollbackable file operations and transactions.                    *)
(*                                                                         *)
(* The filesystem is a function from the paths that exist to their nodes.  *)
(* A path string is a sequence of components; "./a/f" is <<".", "a", "f">>, *)
(* "a/f" is <<"a", "f">> and the empty string is <<>>.  The host resolves   *)
(* a path string relative to the working directory, whose resolved path is *)
(* the empty sequence.                                                     *)
(***************************************************************************)
EXTENDS Naturals, Sequences, FiniteSets, TLC

VARIABLES
    fs,                 \* the filesystem: resolved path -> node
    ops,                \* Transaction.ops (a standalone operation: one element)
    execution_count,    \* Transaction.execution_count
    uuid,               \* number of unique identifiers generated so far
    pre,                \* the filesystem before the first execute call
    calls,              \* the execute / rollback calls made so far, in order
    teardown,           \* empty while the value lives; after its drop, what the drop did
    work                \* a copy_dir call in progress: its locals and where it stands

vars == <<fs, ops, execution_count, uuid, pre, calls, teardown, work>>

-----------------------------------------------------------------------------
(* Bounds of the model.                                                    *)

\* longest resolved path the host accepts (the host's path length limit)
MaxDepth == 5
\* most operations appended to one Transaction
MaxOps == 2
\* most execute / rollback calls made on one Transaction
MaxCalls == 3

-----------------------------------------------------------------------------
(* The host filesystem primitives, as the operations use them.             *)

Dir == [k |-> "dir", c |-> <<>>]
File(c) == [k |-> "file", c |-> c]

\* resolution of a path string: a leading "./" names the working directory
Norm(s) == SelectSeq(s, LAMBDA x : x # ".")

Parent(p) == SubSeq(p, 1, Len(p) - 1)

\* p is q or lies below q
Under(p, q) == Len(p) >= Len(q) /\ SubSeq(p, 1, Len(q)) = q

Exists(f, p) == p \in DOMAIN f
IsDir(f, p) == p \in DOMAIN f /\ f[p].k = "dir"
IsFile(f, p) == p \in DOMAIN f /\ f[p].k = "file"

Prefixes(p) == {SubSeq(p, 1, n) : n \in 0..Len(p)}

\* the filesystem f with path p bound to node nd
Put(f, p, nd) == [q \in DOMAIN f \cup {p} |-> IF q = p THEN nd ELSE f[q]]

\* the filesystem f without p and everything below it
Prune(f, p) == [q \in {x \in DOMAIN f : ~Under(x, p)} |-> f[q]]

\* the tree rooted at p, by paths relative to p
Subtree(f, p) ==
    [r \in {SubSeq(q, Len(p) + 1, Len(q)) : q \in {x \in DOMAIN f : Under(x, p)}}
        |-> f[p \o r]]

Ok(f) == [r |-> "ok", fs |-> f]
Err(f) == [r |-> "err", fs |-> f]

\* fs::create_dir_all: Ok when the directory is there already, an error when a
\* component is a file or the path is longer than the host accepts
create_dir_all(f, s) ==
    LET p == Norm(s) IN
    IF s = <<>> THEN Ok(f)
    ELSE IF IsDir(f, p) THEN Ok(f)
    ELSE IF \E q \in Prefixes(p) : IsFile(f, q) THEN Err(f)
    ELSE IF Len(p) > MaxDepth THEN Err(f)
    ELSE Ok([q \in DOMAIN f \cup Prefixes(p) |-> IF q \in DOMAIN f THEN f[q] ELSE Dir])

\* File::create: opens with write + create + truncate
file_create(f, s) ==
    LET p == Norm(s) IN
    IF s = <<>> \/ p = <<>> THEN Err(f)
    ELSE IF ~IsDir(f, Parent(p)) \/ IsDir(f, p) THEN Err(f)
    ELSE IF Len(p) > MaxDepth THEN Err(f)
    ELSE Ok(Put(f, p, File(<<>>)))

\* OpenOptions::new().write(true).create(true).open(s): the file is created
\* empty when it is missing and left as it is otherwise
open_create(f, s) ==
    LET p == Norm(s) IN
    IF s = <<>> \/ p = <<>> THEN Err(f)
    ELSE IF ~IsDir(f, Parent(p)) \/ IsDir(f, p) THEN Err(f)
    ELSE IF Len(p) > MaxDepth THEN Err(f)
    ELSE IF IsFile(f, p) THEN Ok(f)
    ELSE Ok(Put(f, p, File(<<>>)))

\* OpenOptions::new().read(true).open(s) then read_to_end: a directory opens
\* but cannot be read
read_file(f, s) ==
    IF s # <<>> /\ IsFile(f, Norm(s))
    THEN [r |-> "ok", c |-> f[Norm(s)].c]
    ELSE [r |-> "err", c |-> <<>>]

\* write_all at offset 0 of a file opened without truncate: the bytes past
\* the end of data stay
Overlay(old, data) == data \o SubSeq(old, Len(data) + 1, Len(old))

\* OpenOptions::new().write(true).open(s)?.write_all(data)
write_plain(f, s, data) ==
    IF s # <<>> /\ IsFile(f, Norm(s))
    THEN Ok(Put(f, Norm(s), File(Overlay(f[Norm(s)].c, data))))
    ELSE Err(f)

\* OpenOptions::new().write(true).truncate(true).open(s)?.write_all(data)
write_truncate(f, s, data) ==
    IF s # <<>> /\ IsFile(f, Norm(s))
    THEN Ok(Put(f, Norm(s), File(data)))
    ELSE Err(f)

\* a slip: the file opened for writing without append(true)
write_append_at_start(f, s, data) == write_plain(f, s, data)

\* OpenOptions::new().append(true).open(s)?.write_all(data)
write_append(f, s, data) ==
    IF s # <<>> /\ IsFile(f, Norm(s))
    THEN Ok(Put(f, Norm(s), File(f[Norm(s)].c \o data)))
    ELSE Err(f)

\* fs::remove_file
remove_file(f, s) ==
    IF s # <<>> /\ IsFile(f, Norm(s)) THEN Ok(Prune(f, Norm(s))) ELSE Err(f)

\* fs::remove_dir_all: the directory and everything below it
remove_dir_all(f, s) ==
    IF s # <<>> /\ Norm(s) # <<>> /\ IsDir(f, Norm(s))
    THEN Ok(Prune(f, Norm(s)))
    ELSE Err(f)

\* fs::remove_dir: the directory must be empty
remove_dir(f, s) ==
    IF s # <<>> /\ Norm(s) # <<>> /\ IsDir(f, Norm(s))
       /\ \A x \in DOMAIN f : Under(x, Norm(s)) => x = Norm(s)
    THEN Ok(Prune(f, Norm(s)))
    ELSE Err(f)

\* fs::copy: the source must be a regular file; the destination is created
\* or truncated, so a file copied onto itself ends empty
fs_copy(f, from, to) ==
    LET p == Norm(from)
        q == Norm(to)
    IN  IF from = <<>> \/ to = <<>> THEN Err(f)
        ELSE IF ~IsFile(f, p) THEN Err(f)
        ELSE IF q = <<>> \/ ~IsDir(f, Parent(q)) \/ IsDir(f, q) THEN Err(f)
        ELSE IF Len(q) > MaxDepth THEN Err(f)
        ELSE IF p = q THEN Ok(Put(f, q, File(<<>>)))
        ELSE Ok(Put(f, q, f[p]))

\* fs::rename: a file replaces a file, a directory replaces an empty directory
rename(f, from, to) ==
    LET p == Norm(from)
        q == Norm(to)
        moved == {x \in DOMAIN f : Under(x, p)}
        rest == {x \in DOMAIN f : ~Under(x, p) /\ ~Under(x, q)}
        Rel(x) == SubSeq(x, Len(p) + 1, Len(x))
    IN  IF from = <<>> \/ to = <<>> THEN Err(f)
        ELSE IF p = <<>> \/ q = <<>> \/ ~Exists(f, p) THEN Err(f)
        ELSE IF ~IsDir(f, Parent(q)) THEN Err(f)
        ELSE IF p = q THEN Ok(f)
        ELSE IF Under(q, p) THEN Err(f)
        ELSE IF IsFile(f, p) /\ IsDir(f, q) THEN Err(f)
        ELSE IF IsDir(f, p) /\ IsFile(f, q) THEN Err(f)
        ELSE IF IsDir(f, p) /\ \E x \in DOMAIN f : Under(x, q) /\ x # q THEN Err(f)
        ELSE Ok([x \in rest \cup {q \o Rel(y) : y \in moved} |->
                    IF x \in rest THEN f[x]
                    ELSE f[p \o SubSeq(x, Len(q) + 1, Len(x))]])

-----------------------------------------------------------------------------
(* Backups and the directory copy (lib.rs).                                *)

\* the hyphenated form of the n-th identifier Uuid::new_v4 returns; the
\* identifiers are 128-bit random values, so no two are equal
UuidNames == <<"u1", "u2", "u3", "u4", "u5", "u6", "u7", "u8", "u9", "u10",
               "u11", "u12", "u13", "u14", "u15", "u16">>
UuidStr(n) == UuidNames[n]

\* the entries of a directory as read_dir lists them: the names are listed
\* in some order, and the order taken here is a fixed one
RECURSIVE SetToSeq(_)
SetToSeq(S) ==
    IF S = {} THEN <<>>
    ELSE LET x == CHOOSE y \in S : TRUE IN <<x>> \o SetToSeq(S \ {x})

read_dir(f, s) ==
    LET p == Norm(s) IN
    SetToSeq({q[Len(q)] : q \in {x \in DOMAIN f : Len(x) = Len(p) + 1 /\ Under(x, p)}})

\* the for loop of copy_dir over the entries of working_path: a directory is
\* pushed, a file is copied into dest under its file name; fault is a host
\* failure of fs::copy
RECURSIVE copy_entries(_, _, _, _, _, _)
copy_entries(f, stack, entries, working_path, dest, fault) ==
    IF entries = <<>> THEN [r |-> "ok", fs |-> f, stack |-> stack]
    ELSE LET path == working_path \o <<Head(entries)>> IN
         IF IsDir(f, Norm(path))
         THEN copy_entries(f, Append(stack, path), Tail(entries), working_path, dest, fault)
         ELSE LET c == IF fault THEN Err(f) ELSE fs_copy(f, path, dest \o <<Head(entries)>>) IN
              IF c.r = "err" THEN [r |-> "err", fs |-> f, stack |-> stack]
              ELSE copy_entries(c.fs, stack, Tail(entries), working_path, dest, fault)

\* one turn of the while loop of copy_dir: pop a directory, map it onto the
\* destination root, create the destination when nothing is there, then go
\* through its entries
copy_dir_step(f, stack, input_root, output_root, fault) ==
    LET working_path == stack[Len(stack)]
        rest == SubSeq(stack, 1, Len(stack) - 1)
        src == SubSeq(working_path, input_root + 1, Len(working_path))
        dest == IF Len(src) = 0 THEN output_root ELSE output_root \o src
        made == IF dest = <<>> \/ ~Exists(f, Norm(dest))
                THEN create_dir_all(f, dest) ELSE Ok(f)
    IN  IF made.r = "err" THEN [r |-> "err", fs |-> f, stack |-> rest]
        ELSE IF working_path = <<>> \/ ~IsDir(made.fs, Norm(working_path))
        THEN [r |-> "err", fs |-> made.fs, stack |-> rest]
        ELSE copy_entries(made.fs, rest, read_dir(made.fs, working_path),
                          working_path, dest, fault)

\* the while loop of copy_dir: it ends when the stack is empty, and the first
\* error of a turn (st: what the turn left) returns
RECURSIVE copy_dir_loop(_, _, _, _, _)
RECURSIVE copy_dir_next(_, _, _, _)
copy_dir_loop(f, stack, input_root, output_root, fault) ==
    IF stack = <<>> THEN Ok(f)
    ELSE copy_dir_next(copy_dir_step(f, stack, input_root, output_root, fault),
                       input_root, output_root, fault)

copy_dir_next(st, input_root, output_root, fault) ==
    IF st.r = "err" THEN Err(st.fs)
    ELSE copy_dir_loop(st.fs, st.stack, input_root, output_root, fault)

\* copy_dir(from, to): depth-first over an explicit stack seeded with from
copy_dir(f, from, to, fault) == copy_dir_loop(f, <<from>>, Len(from), to, fault)

\* the locals of a copy_dir call and the place it stands at: "loop" (the
\* while condition), "create" (dest computed), "read" (dest there), "entries"
\* (in the for loop), "done" (returned Ok), "err" (returned an error)
Copying(pc, stack, working_path, dest, entries, input_root, output_root) ==
    [pc |-> pc, stack |-> stack, working_path |-> working_path, dest |-> dest,
     entries |-> entries, input_root |-> input_root, output_root |-> output_root]

\* no copy_dir call in progress
NoCopy == Copying("none", <<>>, <<>>, <<>>, <<>>, 0, <<>>)

\* copy_dir(from, to) entered: the stack seeded, the roots taken
CopyEntered(from, to) == Copying("loop", <<from>>, <<>>, <<>>, <<>>, Len(from), to)

\* a slip: the destination directory is not created
ensure_dest_skipped(f, dest) == Ok(f)

\* if fs::metadata(&dest).is_err() { fs::create_dir_all(&dest)?; }
ensure_dest(f, dest) ==
    IF dest = <<>> \/ ~Exists(f, Norm(dest)) THEN create_dir_all(f, dest) ELSE Ok(f)

\* what a backup step hands back: the result, the filesystem, the operation
\* (with backup_path set on success) and the identifiers used
Backup(r, f, op, n) == [r |-> r, fs |-> f, op |-> op, uuid |-> n]

\* SingleFileOperation::create_backup_file; fault is a host failure of the
\* write into the backup file
create_backup_file(f, op, n, fault) ==
    LET d == create_dir_all(f, op.temp_dir)
        backup_path == op.temp_dir \o <<UuidStr(n + 1)>>
        dest_file == open_create(d.fs, backup_path)
        source_file == read_file(dest_file.fs, op.source)
    IN  IF d.r = "err" THEN Backup("err", f, op, n)
        ELSE IF dest_file.r = "err" THEN Backup("err", d.fs, op, n + 1)
        ELSE IF source_file.r = "err" \/ fault THEN Backup("err", dest_file.fs, op, n + 1)
        ELSE Backup("ok", Put(dest_file.fs, Norm(backup_path), File(source_file.c)),
                    [op EXCEPT !.backup_path = backup_path], n + 1)

\* DirectoryOperation::create_backup_folder; fault is a host failure of a
\* file copy into the backup
\* the end of create_backup_folder: c is what copy_dir into backup_path
\* returned, and set_backup_path is reached only when it is Ok
backup_folder_set(c, op, n, backup_path) ==
    IF c.r = "err" THEN Backup("err", c.fs, op, n + 1)
    ELSE Backup("ok", c.fs, [op EXCEPT !.backup_path = backup_path], n + 1)

create_backup_folder(f, op, n, fault) ==
    LET d == create_dir_all(f, op.temp_dir)
        backup_path == op.temp_dir \o <<UuidStr(n + 1)>>
    IN  IF d.r = "err" THEN Backup("err", f, op, n)
        ELSE backup_folder_set(copy_dir(d.fs, op.source, backup_path, fault),
                               op, n, backup_path)

-----------------------------------------------------------------------------
(* The operations (create.rs, write.rs, append.rs, copy.rs, move.rs,       *)
(* delete.rs).  An operation is a record of its kind and its fields; a     *)
(* field its kind does not have is empty.                                  *)

Op(kind, source, dest, temp_dir, data) ==
    [kind |-> kind, source |-> source, dest |-> dest, temp_dir |-> temp_dir,
     backup_path |-> <<>>, data |-> data]

CreateFile(path) == Op("CreateFile", path, <<>>, <<>>, <<>>)
CreateDirectory(path) == Op("CreateDirectory", path, <<>>, <<>>, <<>>)
WriteFile(source, temp_dir, data) == Op("WriteFile", source, <<>>, temp_dir, data)
AppendFile(source, temp_dir, data) == Op("AppendFile", source, <<>>, temp_dir, data)
CopyFile(source, dest) == Op("CopyFile", source, dest, <<>>, <<>>)
CopyDirectory(source, dest, temp_dir) == Op("CopyDirectory", source, dest, temp_dir, <<>>)
MoveFile(source, dest) == Op("MoveFile", source, dest, <<>>, <<>>)
MoveDirectory(source, dest) == Op("MoveDirectory", source, dest, <<>>, <<>>)
DeleteFile(source, temp_dir) == Op("DeleteFile", source, <<>>, temp_dir, <<>>)
DeleteDirectory(source, temp_dir) == Op("DeleteDirectory", source, <<>>, temp_dir, <<>>)

\* what execute hands back: the result, the filesystem, the operation, the
\* identifiers used, and how the backup step ended ("none": the kind has none)
Done(r, f, op, n, bk) == [r |-> r, fs |-> f, op |-> op, uuid |-> n, bk |-> bk]

\* an execute that is one host call and takes no backup
Plain(res, op, n) == Done(res.r, res.fs, op, n, "none")

\* an execute whose backup step b returned an error: the ? returns it
BackupFailed(b) == Done("err", b.fs, b.op, b.uuid, "err")

\* an execute whose backup step b returned Ok and whose own step returned res
BackedUp(b, res) == Done(res.r, res.fs, b.op, b.uuid, "ok")

CreateFileExecute(f, op, n) == Plain(file_create(f, op.source), op, n)
CreateFileRollback(f, op) == remove_file(f, op.source)

CreateDirectoryExecute(f, op, n) == Plain(create_dir_all(f, op.source), op, n)

\* strip_prefix("./").expect(..) aborts when the path does not start with
\* "./"; what is removed is the first component of the rest
CreateDirectoryRollback(f, op) ==
    IF op.source = <<>> \/ Head(op.source) # "." THEN [r |-> "panic", fs |-> f]
    ELSE remove_dir_all(f, SubSeq(op.source, 2, IF Len(op.source) >= 2 THEN 2 ELSE 1))

\* self.create_backup_file()?; then the write, on what the backup b left
WriteFileWrite(b) ==
    IF b.r = "err" THEN BackupFailed(b)
    ELSE BackedUp(b, write_plain(b.fs, b.op.source, b.op.data))

WriteFileExecute(f, op, n, fault) == WriteFileWrite(create_backup_file(f, op, n, fault))

\* a slip: the file opened for the restore without truncate(true)
RestoreFile_without_truncate(f, op) ==
    LET buffer == read_file(f, op.backup_path) IN
    IF buffer.r = "err" THEN Err(f)
    ELSE write_plain(f, op.source, buffer.c)

\* the rollback of WriteFile and of AppendFile: read the backup, then
\* truncate the file and write the backup's bytes
RestoreFile(f, op) ==
    LET buffer == read_file(f, op.backup_path) IN
    IF buffer.r = "err" THEN Err(f)
    ELSE write_truncate(f, op.source, buffer.c)

WriteFileRollback(f, op) == RestoreFile(f, op)

\* self.create_backup_file()?; then the append, on what the backup b left
AppendFileWrite(b) ==
    IF b.r = "err" THEN BackupFailed(b)
    ELSE BackedUp(b, write_append(b.fs, b.op.source, b.op.data))

AppendFileExecute(f, op, n, fault) == AppendFileWrite(create_backup_file(f, op, n, fault))

AppendFileRollback(f, op) == RestoreFile(f, op)

CopyFileExecute(f, op, n) == Plain(fs_copy(f, op.source, op.dest), op, n)
CopyFileRollback(f, op) == remove_file(f, op.dest)

\* self.create_backup_folder()?; then the copy, on what the backup b left
CopyDirectoryCopy(b) ==
    IF b.r = "err" THEN BackupFailed(b)
    ELSE BackedUp(b, copy_dir(b.fs, b.op.source, b.op.dest, FALSE))

CopyDirectoryExecute(f, op, n, fault) ==
    CopyDirectoryCopy(create_backup_folder(f, op, n, fault))

CopyDirectoryRollback(f, op) == remove_dir_all(f, op.dest)

MoveOperationExecute(f, op, n) == Plain(rename(f, op.source, op.dest), op, n)
MoveOperationRollback(f, op) == rename(f, op.dest, op.source)

\* self.create_backup_file()?; then the removal, on what the backup b left
DeleteFileRemove(b) ==
    IF b.r = "err" THEN BackupFailed(b)
    ELSE BackedUp(b, remove_file(b.fs, b.op.source))

DeleteFileExecute(f, op, n, fault) == DeleteFileRemove(create_backup_file(f, op, n, fault))

\* a slip: the backup moved back instead of copied
DeleteFileRollback_moving(f, op) == rename(f, op.backup_path, op.source)

DeleteFileRollback(f, op) == fs_copy(f, op.backup_path, op.source)

\* self.create_backup_folder()?; then the removal, on what the backup b left
DeleteDirectoryRemove(b) ==
    IF b.r = "err" THEN BackupFailed(b)
    ELSE BackedUp(b, remove_dir_all(b.fs, b.op.source))

DeleteDirectoryExecute(f, op, n, fault) ==
    DeleteDirectoryRemove(create_backup_folder(f, op, n, fault))

\* a slip: the backup copied back instead of moved
DeleteDirectoryRollback_copying(f, op) == copy_dir(f, op.backup_path, op.source, FALSE)

DeleteDirectoryRollback(f, op) == rename(f, op.backup_path, op.source)

\* SingleFileOperation::dispose and DirectoryOperation::dispose
SingleFileOperation_dispose(f, op) == remove_file(f, op.backup_path)
DirectoryOperation_dispose(f, op) == remove_dir(f, op.backup_path)

\* what a drop leaves: it returns nothing, and reported tells whether it
\* printed an error
Dropped(r, f, reported) == [r |-> r, fs |-> f, reported |-> reported]

\* a slip: the result of dispose unwrapped in drop
drop_unwrapping_dispose(res) ==
    Dropped(IF res.r = "err" THEN "panic" ELSE "ok", res.fs, FALSE)

\* Drop::drop of the kinds that keep a backup: match self.dispose(), an
\* error is printed and nothing else
drop_after_dispose(res) == Dropped("ok", res.fs, res.r = "err")

\* the drop of an operation, by kind; the kinds without a backup have no Drop
OpDrop(f, op) ==
    CASE op.kind \in {"WriteFile", "AppendFile", "DeleteFile"} ->
            drop_after_dispose(SingleFileOperation_dispose(f, op))
      [] op.kind \in {"CopyDirectory", "DeleteDirectory"} ->
            drop_after_dispose(DirectoryOperation_dispose(f, op))
      [] OTHER -> Dropped("ok", f, FALSE)

\* RollbackableOperation::execute, by kind
OpExecute(f, op, n, fault) ==
    CASE op.kind = "CreateFile" -> CreateFileExecute(f, op, n)
      [] op.kind = "CreateDirectory" -> CreateDirectoryExecute(f, op, n)
      [] op.kind = "WriteFile" -> WriteFileExecute(f, op, n, fault)
      [] op.kind = "AppendFile" -> AppendFileExecute(f, op, n, fault)
      [] op.kind = "CopyFile" -> CopyFileExecute(f, op, n)
      [] op.kind = "CopyDirectory" -> CopyDirectoryExecute(f, op, n, fault)
      [] op.kind \in {"MoveFile", "MoveDirectory"} -> MoveOperationExecute(f, op, n)
      [] op.kind = "DeleteFile" -> DeleteFileExecute(f, op, n, fault)
      [] op.kind = "DeleteDirectory" -> DeleteDirectoryExecute(f, op, n, fault)

\* RollbackableOperation::rollback, by kind
OpRollback(f, op) ==
    CASE op.kind = "CreateFile" -> CreateFileRollback(f, op)
      [] op.kind = "CreateDirectory" -> CreateDirectoryRollback(f, op)
      [] op.kind = "WriteFile" -> WriteFileRollback(f, op)
      [] op.kind = "AppendFile" -> AppendFileRollback(f, op)
      [] op.kind = "CopyFile" -> CopyFileRollback(f, op)
      [] op.kind = "CopyDirectory" -> CopyDirectoryRollback(f, op)
      [] op.kind \in {"MoveFile", "MoveDirectory"} -> MoveOperationRollback(f, op)
      [] op.kind = "DeleteFile" -> DeleteFileRollback(f, op)
      [] op.kind = "DeleteDirectory" -> DeleteDirectoryRollback(f, op)

-----------------------------------------------------------------------------
(* Transaction (lib.rs).                                                   *)

\* one operation's execute or rollback, as a call made: the operation's
\* index, its result and how its backup step ended
Step(i, r, bk) == [i |-> i, r |-> r, bk |-> bk]

\* what a call on the Transaction (or on a standalone operation) leaves
Outcome(r, f, os, cnt, n, log) ==
    [r |-> r, fs |-> f, ops |-> os, execution_count |-> cnt, uuid |-> n, log |-> log]

\* the for loop of Transaction::execute from index i on: the count goes up
\* before the operation's execute is invoked, and the first error returns
RECURSIVE execute_loop(_, _, _, _, _, _)
RECURSIVE execute_next(_, _, _, _, _)
RECURSIVE rollback_loop(_, _, _, _)
RECURSIVE rollback_next(_, _, _, _)
execute_loop(i, f, os, cnt, n, log) ==
    IF i > Len(os) THEN Outcome("ok", f, os, cnt, n, log)
    ELSE execute_next(i, os, cnt + 1, log, OpExecute(f, os[i], n, FALSE))

\* a slip: the error of an operation is dropped and the loop goes on
execute_next_ignoring_error(i, os, cnt, log, res) ==
    execute_loop(i + 1, res.fs, [os EXCEPT ![i] = res.op], cnt, res.uuid,
                 Append(log, Step(i, res.r, res.bk)))

\* a slip: execute undoes the operations that succeeded when one fails
execute_next_rolling_back(i, os, cnt, log, res) ==
    IF res.r = "err"
    THEN Outcome("err", rollback_loop(i - 1, res.fs, os, <<>>).fs,
                 [os EXCEPT ![i] = res.op], cnt, res.uuid,
                 Append(log, Step(i, res.r, res.bk)))
    ELSE execute_loop(i + 1, res.fs, [os EXCEPT ![i] = res.op], cnt, res.uuid,
                      Append(log, Step(i, res.r, res.bk)))

\* a slip: an operation that failed is not counted
execute_next_failure_uncounted(i, os, cnt, log, res) ==
    IF res.r = "err"
    THEN Outcome("err", res.fs, [os EXCEPT ![i] = res.op], cnt - 1, res.uuid,
                 Append(log, Step(i, res.r, res.bk)))
    ELSE execute_loop(i + 1, res.fs, [os EXCEPT ![i] = res.op], cnt, res.uuid,
                      Append(log, Step(i, res.r, res.bk)))

\* res is what self.ops[i].execute() returned, cnt the count already raised
execute_next(i, os, cnt, log, res) ==
    IF res.r = "err"
    THEN Outcome("err", res.fs, [os EXCEPT ![i] = res.op], cnt, res.uuid,
                 Append(log, Step(i, res.r, res.bk)))
    ELSE execute_loop(i + 1, res.fs, [os EXCEPT ![i] = res.op], cnt, res.uuid,
                      Append(log, Step(i, res.r, res.bk)))

\* the for loop of Transaction::rollback from index i down: ops[i] aborts
\* when i is no index of ops, and the first error returns
rollback_loop(i, f, os, log) ==
    IF i < 1 THEN [r |-> "ok", fs |-> f, log |-> log]
    ELSE IF i > Len(os) THEN [r |-> "panic", fs |-> f, log |-> log]
    ELSE rollback_next(i, os, log, OpRollback(f, os[i]))

\* a slip: the error of an operation's rollback is dropped and the loop goes on
rollback_next_continuing(i, os, log, res) ==
    rollback_loop(i - 1, res.fs, os, Append(log, Step(i, res.r, "none")))

\* res is what self.ops[i].rollback() returned
rollback_next(i, os, log, res) ==
    IF res.r # "ok"
    THEN [r |-> res.r, fs |-> res.fs, log |-> Append(log, Step(i, res.r, "none"))]
    ELSE rollback_loop(i - 1, res.fs, os, Append(log, Step(i, res.r, "none")))

TransactionExecute(f, os, cnt, n) == execute_loop(1, f, os, cnt, n, <<>>)
\* rollback takes &self: the operations, the count and the identifiers stay
RolledBack(res, os, cnt, n) == Outcome(res.r, res.fs, os, cnt, n, res.log)
TransactionRollback(f, os, cnt, n) == RolledBack(rollback_loop(cnt, f, os, <<>>), os, cnt, n)

\* the drop of the operations a Transaction owns (ops: Vec<Box<dyn ..>>), in
\* index order; d is what the drop of ops[i] left
RECURSIVE drop_loop(_, _, _, _)
RECURSIVE drop_next(_, _, _, _)
drop_loop(i, f, os, log) ==
    IF i > Len(os) THEN [fs |-> f, log |-> log]
    ELSE drop_next(i, os, log, OpDrop(f, os[i]))

drop_next(i, os, log, d) ==
    drop_loop(i + 1, d.fs, os, Append(log, [i |-> i, r |-> d.r, reported |-> d.reported]))

\* a call made on the Transaction: which, what it returned, the operation
\* calls it made, and how many operations the Transaction held
Call(name, r, log, nops) == [call |-> name, r |-> r, log |-> log, nops |-> nops]

\* a process that aborted makes no further call, and a value that was
\* dropped takes none
Running == teardown = <<>> /\ \A j \in 1..Len(calls) : calls[j].r # "panic"

-----------------------------------------------------------------------------
(* The filesystems and the arguments the checks start from.                *)

FsEmpty == <<>> :> Dir

\* ./f, and a directory ./a holding a file, an empty directory and a
\* directory with a file
FsTree ==
    (<<>> :> Dir) @@ (<<"f">> :> File(<<1, 2>>)) @@ (<<"a">> :> Dir)
    @@ (<<"a", "f">> :> File(<<2>>)) @@ (<<"a", "e">> :> Dir)
    @@ (<<"a", "b">> :> Dir) @@ (<<"a", "b", "g">> :> File(<<1>>))

\* as FsTree, with a regular file where the temporary directory is asked for
FsTempIsFile == FsTree @@ (<<"t">> :> File(<<>>))

TempDir == <<".", "t">>

Payloads == {<<>>, <<3>>, <<3, 3, 3>>}

\* the arguments of the builder calls of a Transaction
TxFilePaths == {<<".", "g">>, <<".", "x", "g">>}
TxDirPaths == {<<".", "d">>, <<".", "a", "d">>}
TxSources == {<<".", "f">>, <<".", "x">>}

\* the standalone operations
OpInputs ==
    {CreateFile(p) : p \in {<<".", "g">>, <<".", "f">>, <<".", "x", "g">>,
                            <<".", "a">>, <<"g">>}}
    \cup {CreateDirectory(p) : p \in {<<".", "d">>, <<".", "a", "d">>, <<".", "d", "d">>,
                                      <<".", "a">>, <<"d">>, <<"d", "d">>}}
    \cup {WriteFile(p, TempDir, d) : p \in {<<".", "f">>, <<".", "a", "f">>, <<".", "x">>,
                                            <<".", "a">>}, d \in Payloads}
    \cup {AppendFile(p, TempDir, d) : p \in {<<".", "f">>, <<".", "a", "f">>, <<".", "x">>,
                                             <<".", "a">>}, d \in Payloads}
    \cup {CopyFile(<<".", "f">>, q) : q \in {<<".", "g">>, <<".", "a", "f">>,
                                             <<".", "x", "g">>}}
    \cup {CopyFile(<<".", "x">>, <<".", "f">>), CopyFile(<<".", "a">>, <<".", "g">>)}
    \cup {CopyDirectory(<<".", "a">>, q, TempDir) : q \in {<<".", "d">>, <<".", "a", "d">>,
                                                            <<".", "f">>}}
    \cup {CopyDirectory(<<".", "x">>, <<".", "d">>, TempDir),
          CopyDirectory(<<".", "a", "b">>, <<".", "a", "e">>, TempDir),
          CopyDirectory(<<".", "a", "b">>, <<".", "a">>, TempDir)}
    \cup {MoveFile(<<".", "f">>, q) : q \in {<<".", "g">>, <<".", "a", "f">>, <<".", "a">>}}
    \cup {MoveFile(<<".", "x">>, <<".", "f">>)}
    \cup {MoveDirectory(<<".", "a">>, q) : q \in {<<".", "d">>, <<".", "a", "b", "d">>,
                                                  <<".", "f">>}}
    \cup {MoveDirectory(<<".", "a", "e">>, <<".", "a", "b">>),
          MoveDirectory(<<".", "a", "b">>, <<".", "a", "e">>)}
    \cup {DeleteFile(p, TempDir) : p \in {<<".", "f">>, <<".", "a", "f">>, <<".", "x">>,
                                          <<".", "a">>}}
    \cup {DeleteDirectory(p, TempDir) : p \in {<<".", "a">>, <<".", "a", "b">>,
                                               <<".", "a", "e">>, <<".", "x">>, <<".", "f">>}}
    \cup {DeleteDirectory(<<".", "a">>, <<".", "a", "t">>)}

-----------------------------------------------------------------------------
(* A Transaction driven by its caller: builder calls, execute and rollback *)
(* in any order.                                                           *)

Init ==
    /\ fs \in {FsEmpty, FsTree}
    /\ ops = <<>>
    /\ execution_count = 0
    /\ uuid = 0
    /\ pre = fs
    /\ calls = <<>>
    /\ teardown = <<>>
    /\ work = NoCopy

\* a builder call is made by a running caller; the model stops at MaxOps
CanPush == Running /\ Len(ops) < MaxOps

\* the builder methods: self.ops.push(Box::new(..)), nothing else
Transaction_create_file ==
    \E p \in TxFilePaths :
        /\ CanPush
        /\ ops' = Append(ops, CreateFile(p))
        /\ UNCHANGED <<fs, execution_count, uuid, pre, calls, teardown, work>>

Transaction_create_dir ==
    \E p \in TxDirPaths :
        /\ CanPush
        /\ ops' = Append(ops, CreateDirectory(p))
        /\ UNCHANGED <<fs, execution_count, uuid, pre, calls, teardown, work>>

Transaction_append_file ==
    /\ CanPush
    /\ ops' = Append(ops, AppendFile(<<".", "f">>, TempDir, <<3>>))
    /\ UNCHANGED <<fs, execution_count, uuid, pre, calls, teardown, work>>

Transaction_copy_file ==
    /\ CanPush
    /\ ops' = Append(ops, CopyFile(<<".", "f">>, <<".", "g">>))
    /\ UNCHANGED <<fs, execution_count, uuid, pre, calls, teardown, work>>

Transaction_copy_dir ==
    /\ CanPush
    /\ ops' = Append(ops, CopyDirectory(<<".", "a">>, <<".", "d">>, TempDir))
    /\ UNCHANGED <<fs, execution_count, uuid, pre, calls, teardown, work>>

Transaction_delete_file ==
    /\ CanPush
    /\ ops' = Append(ops, DeleteFile(<<".", "f">>, TempDir))
    /\ UNCHANGED <<fs, execution_count, uuid, pre, calls, teardown, work>>

Transaction_delete_dir ==
    /\ CanPush
    /\ ops' = Append(ops, DeleteDirectory(<<".", "a">>, TempDir))
    /\ UNCHANGED <<fs, execution_count, uuid, pre, calls, teardown, work>>

Transaction_move_file ==
    /\ CanPush
    /\ ops' = Append(ops, MoveFile(<<".", "f">>, <<".", "g">>))
    /\ UNCHANGED <<fs, execution_count, uuid, pre, calls, teardown, work>>

Transaction_move_dir ==
    /\ CanPush
    /\ ops' = Append(ops, MoveDirectory(<<".", "a">>, <<".", "d">>))
    /\ UNCHANGED <<fs, execution_count, uuid, pre, calls, teardown, work>>

Transaction_write_file ==
    \E p \in TxSources :
        /\ CanPush
        /\ ops' = Append(ops, WriteFile(p, TempDir, <<3>>))
        /\ UNCHANGED <<fs, execution_count, uuid, pre, calls, teardown, work>>

\* the state a call leaves, and the call noted
Returned(name, out) ==
    /\ fs' = out.fs
    /\ ops' = out.ops
    /\ execution_count' = out.execution_count
    /\ uuid' = out.uuid
    /\ calls' = Append(calls, Call(name, out.r, out.log, Len(ops)))
    /\ pre' = IF calls = <<>> THEN fs ELSE pre
    /\ UNCHANGED <<teardown, work>>

\* the state a drop leaves: the filesystem, and what the drops did to which
\* filesystem; the value is gone
TornDown(out) ==
    /\ fs' = out.fs
    /\ teardown' = <<[log |-> out.log, before |-> fs]>>
    /\ UNCHANGED <<ops, execution_count, uuid, pre, calls, work>>

Transaction_execute ==
    /\ Running
    /\ Len(calls) < MaxCalls
    /\ Returned("execute", TransactionExecute(fs, ops, execution_count, uuid))

Transaction_rollback ==
    /\ Running
    /\ Len(calls) < MaxCalls
    /\ Returned("rollback", TransactionRollback(fs, ops, execution_count, uuid))

\* the Transaction goes out of scope (also when its caller aborted)
Transaction_drop ==
    /\ teardown = <<>>
    /\ TornDown(drop_loop(1, fs, ops, <<>>))

Next ==
    \/ Transaction_create_file
    \/ Transaction_create_dir
    \/ Transaction_append_file
    \/ Transaction_copy_file
    \/ Transaction_copy_dir
    \/ Transaction_delete_file
    \/ Transaction_delete_dir
    \/ Transaction_move_file
    \/ Transaction_move_dir
    \/ Transaction_write_file
    \/ Transaction_execute
    \/ Transaction_rollback
    \/ Transaction_drop

Spec == Init /\ [][Next]_vars

-----------------------------------------------------------------------------
(* One standalone operation, executed once and then rolled back by its     *)
(* caller, on a host that may fail the write of a backup.                  *)

OpInit ==
    /\ fs \in {FsEmpty, FsTree, FsTempIsFile}
    /\ ops \in {<<op>> : op \in OpInputs}
    /\ execution_count = 0
    /\ uuid = 0
    /\ pre = fs
    /\ calls = <<>>
    /\ teardown = <<>>
    /\ work = NoCopy

\* a standalone operation's call, as an outcome of the same shape
Executed(res, cnt) ==
    Outcome(res.r, res.fs, <<res.op>>, cnt, res.uuid, <<Step(1, res.r, res.bk)>>)
Undone(res, os, cnt, n) ==
    Outcome(res.r, res.fs, os, cnt, n, <<Step(1, res.r, "none")>>)

Operation_execute ==
    /\ Running
    /\ calls = <<>>
    /\ \E fault \in BOOLEAN :
        Returned("execute", Executed(OpExecute(fs, ops[1], uuid, fault), execution_count))

Operation_rollback ==
    /\ Running
    /\ Len(calls) = 1
    /\ Returned("rollback", Undone(OpRollback(fs, ops[1]), ops, execution_count, uuid))

\* the operation goes out of scope: never executed, executed, or rolled back
Operation_drop ==
    /\ teardown = <<>>
    /\ TornDown(drop_loop(1, fs, ops, <<>>))

OpNext == Operation_execute \/ Operation_rollback \/ Operation_drop

OpSpec == OpInit /\ [][OpNext]_vars

-----------------------------------------------------------------------------
(* One copy_dir call on a host that serves every call, taken step by step. *)

\* the arguments the call is made with
CopyInputs ==
    {<<<<".", "a">>, to>> : to \in {<<".", "d">>, <<".", "a", "d">>, <<".", "t", "u1">>,
                                    <<".", "a", "t", "u1">>, <<".", "f">>,
                                    <<".", "a", "b", "d">>, <<>>}}
    \cup {<<<<".", "a", "b">>, to>> : to \in {<<".", "a", "e">>, <<".", "a">>, <<".", "d", "d">>}}
    \cup {<<<<".", "a", "e">>, <<".", "d">>>>, <<<<".", "x">>, <<".", "d">>>>,
          <<<<".", "f">>, <<".", "d">>>>, <<<<"a">>, <<"d">>>>}

CopyInit ==
    /\ fs \in {FsEmpty, FsTree, FsTempIsFile}
    /\ ops = <<>>
    /\ execution_count = 0
    /\ uuid = 0
    /\ pre = fs
    /\ calls = <<>>
    /\ teardown = <<>>
    /\ work \in {CopyEntered(a[1], a[2]) : a \in CopyInputs}

\* the state a step of copy_dir leaves
CopyStep(f, w) ==
    /\ fs' = f
    /\ work' = w
    /\ UNCHANGED <<ops, execution_count, uuid, pre, calls, teardown>>

\* while let Some(working_path) = stack.pop(): the directory popped is mapped
\* onto the destination root
copy_dir_pop ==
    /\ work.pc = "loop"
    /\ work.stack # <<>>
    /\ CopyStep(fs, [work EXCEPT
            !.pc = "create",
            !.stack = SubSeq(work.stack, 1, Len(work.stack) - 1),
            !.working_path = work.stack[Len(work.stack)],
            !.dest = work.output_root
                        \o SubSeq(work.stack[Len(work.stack)], work.input_root + 1,
                                  Len(work.stack[Len(work.stack)]))])

\* the stack is empty: Ok(())
copy_dir_return ==
    /\ work.pc = "loop"
    /\ work.stack = <<>>
    /\ CopyStep(fs, [work EXCEPT !.pc = "done"])

\* the destination is created when nothing is there; made is what that left
DestEnsured(made) ==
    CopyStep(made.fs, [work EXCEPT !.pc = IF made.r = "err" THEN "err" ELSE "read"])

copy_dir_create_dest ==
    /\ work.pc = "create"
    /\ DestEnsured(ensure_dest(fs, work.dest))

\* fs::read_dir(working_path)?
copy_dir_read_dir ==
    /\ work.pc = "read"
    /\ IF work.working_path = <<>> \/ ~IsDir(fs, Norm(work.working_path))
       THEN CopyStep(fs, [work EXCEPT !.pc = "err"])
       ELSE CopyStep(fs, [work EXCEPT !.pc = "entries",
                                      !.entries = read_dir(fs, work.working_path)])

\* one entry of the for loop whose path is a directory: pushed
copy_dir_push ==
    /\ work.pc = "entries"
    /\ work.entries # <<>>
    /\ IsDir(fs, Norm(work.working_path \o <<Head(work.entries)>>))
    /\ CopyStep(fs, [work EXCEPT
            !.stack = Append(work.stack, work.working_path \o <<Head(work.entries)>>),
            !.entries = Tail(work.entries)])

\* a file was copied into dest; c is what fs::copy left
FileCopied(c) ==
    CopyStep(c.fs, [work EXCEPT !.pc = IF c.r = "err" THEN "err" ELSE "entries",
                                !.entries = Tail(work.entries)])

\* one entry of the for loop that is no directory: copied into dest under its
\* file name
copy_dir_copy_file ==
    /\ work.pc = "entries"
    /\ work.entries # <<>>
    /\ ~IsDir(fs, Norm(work.working_path \o <<Head(work.entries)>>))
    /\ FileCopied(fs_copy(fs, work.working_path \o <<Head(work.entries)>>,
                          work.dest \o <<Head(work.entries)>>))

\* the for loop is through: back to the while condition
copy_dir_entries_done ==
    /\ work.pc = "entries"
    /\ work.entries = <<>>
    /\ CopyStep(fs, [work EXCEPT !.pc = "loop"])

CopyNext ==
    \/ copy_dir_pop
    \/ copy_dir_return
    \/ copy_dir_create_dest
    \/ copy_dir_read_dir
    \/ copy_dir_push
    \/ copy_dir_copy_file
    \/ copy_dir_entries_done

CopySpec == CopyInit /\ [][CopyNext]_vars

\* the call runs on: a step that can be taken is taken
CopyLive == CopySpec /\ WF_vars(CopyNext)

-----------------------------------------------------------------------------
(* The properties checked.                                                 *)

\* the first call was execute and the second, if made, rollback
Executed1 == Len(calls) >= 1 /\ calls[1].call = "execute"
ExecutedThenRolledBack ==
    Len(calls) = 2 /\ calls[1].call = "execute" /\ calls[2].call = "rollback"

\* the filesystem outside the temporary directories of the operations
OutsideTemp(f) ==
    [x \in {y \in DOMAIN f : \A i \in 1..Len(ops) :
                ops[i].temp_dir = <<>> \/ ~Under(y, Norm(ops[i].temp_dir))} |-> f[x]]

\* the kinds whose execute backs up its target before changing it
BackupKinds == {"WriteFile", "AppendFile", "DeleteFile", "DeleteDirectory"}

\* the standalone operation and its target
TheOp == ops[1]
Target == Norm(ops[1].source)

\* C1: when execute fails at operation k, the rollback that follows rolls
\* back every operation 1..k-1 (each rollback is invoked and returns Ok),
\* in descending order.
C1_RollbackUndoesSucceeded ==
    (ExecutedThenRolledBack /\ calls[1].r = "err") =>
        LET k == Len(calls[1].log)
            rb == calls[2].log
        IN  /\ \A i \in 1..(k - 1) :
                    \E j \in 1..Len(rb) : rb[j].i = i /\ rb[j].r = "ok"
            /\ \A x, y \in 1..Len(rb) : x < y => rb[x].i > rb[y].i

\* C2: execution_count never exceeds the number of appended operations.
C2_CountWithinOps == 0 <= execution_count /\ execution_count <= Len(ops)

\* C3: execute invokes the operations in append order, each once, invokes
\* nothing after the first failure and returns that failure; it returns Ok
\* only when every operation was invoked and returned Ok.
C3_ExecuteInAppendOrder ==
    \A j \in 1..Len(calls) :
        calls[j].call = "execute" =>
            LET log == calls[j].log
                m == Len(log)
            IN  /\ m <= calls[j].nops
                /\ \A x \in 1..m : log[x].i = x
                /\ \A x \in 1..(m - 1) : log[x].r = "ok"
                /\ calls[j].r \in {"ok", "err"}
                /\ calls[j].r = "ok" => m = calls[j].nops /\ \A x \in 1..m : log[x].r = "ok"
                /\ calls[j].r = "err" => m >= 1 /\ log[m].r = "err"

\* C3's case: execute failed at the first of two operations, and the second
\* was not invoked
C3_Witness ==
    /\ Executed1
    /\ calls[1].r = "err"
    /\ calls[1].nops = 2
    /\ Len(calls[1].log) = 1

\* C4: after an execute that returned Ok, rollback returns Ok and the
\* filesystem outside the temporary directory is what it was before.
C4_RollbackRestores ==
    (ExecutedThenRolledBack /\ calls[1].r = "ok" /\ calls[1].nops >= 1) =>
        calls[2].r = "ok" /\ OutsideTemp(fs) = OutsideTemp(pre)

\* C5: for a single operation of any kind whose execute succeeded, execute
\* then rollback leaves every path outside the temporary directory as before.
C5_RoundTrip ==
    (ExecutedThenRolledBack /\ calls[1].r = "ok") =>
        OutsideTemp(fs) = OutsideTemp(pre)

\* C6: for WriteFile, AppendFile, DeleteFile and DeleteDirectory, rollback
\* after a successful execute returns Ok and the target (a file's bytes, a
\* directory's whole tree) is what it was before execute.
C6_BackupRestoresTarget ==
    (ExecutedThenRolledBack /\ calls[1].r = "ok" /\ TheOp.kind \in BackupKinds) =>
        calls[2].r = "ok" /\ Subtree(fs, Target) = Subtree(pre, Target)

\* C6's case: a WriteFile whose payload is longer than the file was, rolled back
C6_Witness ==
    /\ ExecutedThenRolledBack
    /\ calls[1].r = "ok"
    /\ TheOp.kind = "WriteFile"
    /\ Len(TheOp.data) > Len(pre[Target].c)

\* C7: when the backup step of WriteFile, AppendFile, DeleteFile or
\* DeleteDirectory fails, execute returns an error, the target is unchanged
\* and backup_path is still empty.
C7_FailedBackupLeavesTarget ==
    (Len(calls) = 1 /\ Executed1 /\ TheOp.kind \in BackupKinds
        /\ calls[1].log[1].bk = "err") =>
        /\ calls[1].r = "err"
        /\ TheOp.backup_path = <<>>
        /\ Subtree(fs, Target) = Subtree(pre, Target)

\* C8: CreateFile.execute returns an error and changes nothing when the path
\* exists or its parent is missing, and succeeds only on a path that did not
\* exist, leaving a new empty file.
C8_CreateFileFailsIfExists ==
    (Len(calls) = 1 /\ Executed1 /\ TheOp.kind = "CreateFile") =>
        /\ (Exists(pre, Target) \/ ~IsDir(pre, Parent(Target))) =>
                calls[1].r = "err" /\ fs = pre
        /\ calls[1].r = "ok" =>
                ~Exists(pre, Target) /\ IsFile(fs, Target) /\ fs[Target].c = <<>>

\* C9: after a successful WriteFile.execute the file holds exactly the payload.
C9_WriteLeavesPayload ==
    (Len(calls) = 1 /\ Executed1 /\ TheOp.kind = "WriteFile" /\ calls[1].r = "ok") =>
        IsFile(fs, Target) /\ fs[Target].c = TheOp.data

\* C10: after a successful AppendFile.execute the file holds its prior bytes
\* followed by the payload, and after the rollback that follows it holds the
\* prior bytes again.
C10_AppendThenRestore ==
    (Executed1 /\ TheOp.kind = "AppendFile" /\ calls[1].r = "ok") =>
        /\ IsFile(pre, Target)
        /\ Len(calls) = 1 => IsFile(fs, Target) /\ fs[Target].c = pre[Target].c \o TheOp.data
        /\ Len(calls) = 2 => IsFile(fs, Target) /\ fs[Target].c = pre[Target].c

\* C10's case: a payload appended to a file that held bytes, then rolled back
C10_Witness ==
    /\ ExecutedThenRolledBack
    /\ calls[1].r = "ok"
    /\ TheOp.kind = "AppendFile"
    /\ TheOp.data # <<>>
    /\ pre[Target].c # <<>>

\* the standalone operation's destination, and the state of its lifetime
Dest == Norm(ops[1].dest)
Live == teardown = <<>>

\* C11: after CreateDirectory.execute created a path of several levels,
\* rollback returns Ok and no directory that execute created remains.
C11_CreateDirectoryRollbackRemovesCreated ==
    (ExecutedThenRolledBack /\ TheOp.kind = "CreateDirectory" /\ calls[1].r = "ok"
        /\ Len(Target) >= 2 /\ ~Exists(pre, Target)) =>
        calls[2].r = "ok" /\ \A p \in DOMAIN fs : p \in DOMAIN pre

\* C12: after a successful DeleteDirectory.execute, rollback returns Ok, the
\* directory is back at its path with the whole tree it had, and nothing
\* exists at the backup path.
C12_DeleteDirectoryMovedBack ==
    (ExecutedThenRolledBack /\ TheOp.kind = "DeleteDirectory" /\ calls[1].r = "ok") =>
        /\ calls[2].r = "ok"
        /\ IsDir(fs, Target)
        /\ Subtree(fs, Target) = Subtree(pre, Target)
        /\ TheOp.backup_path # <<>>
        /\ ~Exists(fs, Norm(TheOp.backup_path))

\* C12's case: a directory holding a file, an empty directory and a directory
\* with a file was deleted and rolled back
C12_Witness ==
    /\ ExecutedThenRolledBack
    /\ calls[1].r = "ok"
    /\ TheOp.kind = "DeleteDirectory"
    /\ IsFile(pre, Target \o <<"b", "g">>)
    /\ IsDir(pre, Target \o <<"e">>)

\* C13: after a successful CopyDirectory.execute the destination holds
\* exactly the relative paths and file contents of the source; the rollback
\* that follows removes the destination; the source tree is as before after
\* both.
C13_CopyDirectoryReproduces ==
    (Executed1 /\ Len(calls) <= 2 /\ TheOp.kind = "CopyDirectory" /\ calls[1].r = "ok") =>
        /\ Subtree(fs, Target) = Subtree(pre, Target)
        /\ Len(calls) = 1 => Subtree(fs, Dest) = Subtree(pre, Target)
        /\ Len(calls) = 2 => calls[2].r = "ok" /\ ~Exists(fs, Dest)

\* C14: after the drop of an operation whose backup step succeeded, nothing
\* exists at its backup path.
C14_DropRemovesBackup ==
    (~Live /\ Executed1 /\ calls[1].log[1].bk = "ok") =>
        ~Exists(fs, Norm(TheOp.backup_path))

\* C15: a drop never aborts, whatever the operation went through, and it
\* changes no path other than the backup artifact of the operation.
C15_DropNeverPropagates ==
    ~Live =>
        /\ \A x \in 1..Len(teardown[1].log) : teardown[1].log[x].r = "ok"
        /\ \A p \in DOMAIN fs \cup DOMAIN teardown[1].before :
                (p \notin DOMAIN fs \/ p \notin DOMAIN teardown[1].before
                    \/ fs[p] # teardown[1].before[p]) =>
                \E i \in 1..Len(ops) :
                    ops[i].backup_path # <<>> /\ Under(p, Norm(ops[i].backup_path))

\* C15's case: a DeleteDirectory whose backup the rollback moved away is
\* dropped, and its dispose fails
C15_Witness ==
    /\ ~Live
    /\ ExecutedThenRolledBack
    /\ calls[1].r = "ok"
    /\ calls[2].r = "ok"
    /\ TheOp.kind = "DeleteDirectory"
    /\ teardown[1].log[1].reported

\* the filesystem the operations i..k leave when executed in order on f
RECURSIVE ExecutedInOrder(_, _, _, _)
RECURSIVE ExecutedInOrderNext(_, _, _)
ExecutedInOrder(i, k, f, n) ==
    IF i > k THEN f ELSE ExecutedInOrderNext(i, k, OpExecute(f, ops[i], n, FALSE))
ExecutedInOrderNext(i, k, res) == ExecutedInOrder(i + 1, k, res.fs, res.uuid)

\* C16: when execute returns an error at operation k, the filesystem holds
\* what the operations 1..k-1 did (and what operation k did before it
\* failed): execute undid nothing, and it stays so until rollback is called.
C16_NoAutoRollback ==
    (Len(calls) = 1 /\ Executed1 /\ calls[1].r = "err" /\ Live) =>
        fs = ExecutedInOrder(1, Len(calls[1].log), pre, 0)

\* C16's case: execute failed at the second operation after the first one
\* changed the filesystem
C16_Witness ==
    /\ Len(calls) = 1
    /\ Executed1
    /\ Live
    /\ calls[1].r = "err"
    /\ Len(calls[1].log) = 2
    /\ ExecutedInOrder(1, 1, pre, 0) # pre

\* C17: every execute and every rollback returns Ok or an error; none aborts.
C17_NoAbort == \A j \in 1..Len(calls) : calls[j].r \in {"ok", "err"}

C19_RollbackOnlyExecuted ==
    \A j \in 1..Len(calls) :
        calls[j].call = "rollback" =>
            /\ \A x, y \in 1..Len(calls[j].log) :
                    x < y => calls[j].log[x].i > calls[j].log[y].i
            /\ \A x \in 1..Len(calls[j].log) :
                    \E e \in 1..(j - 1) :
                        /\ calls[e].call = "execute"
                        /\ \E y \in 1..Len(calls[e].log) :
                                calls[e].log[y].i = calls[j].log[x].i
            /\ (\A e \in 1..(j - 1) : calls[e].call # "execute") =>
                    calls[j].log = <<>> /\ calls[j].r = "ok"

\* C20: in a rollback call an operation's rollback that fails is the last one
\* invoked and its error is what the call returns; the ones invoked before
\* it, of higher index, returned Ok, and the call returns an error only so.
C20_RollbackStopsAtFirstError ==
    \A j \in 1..Len(calls) :
        calls[j].call = "rollback" =>
            /\ \A x \in 1..Len(calls[j].log) :
                    calls[j].log[x].r = "err" =>
                        x = Len(calls[j].log) /\ calls[j].r = "err"
            /\ calls[j].r = "err" =>
                    /\ Len(calls[j].log) >= 1
                    /\ calls[j].log[Len(calls[j].log)].r = "err"
            /\ \A x \in 2..Len(calls[j].log) :
                    calls[j].log[x].i = calls[j].log[x - 1].i - 1

\* C20's case: the rollback of the second of two operations failed, and the
\* first, which execute had run, was not rolled back
C20_Witness ==
    /\ ExecutedThenRolledBack
    /\ calls[1].nops = 2
    /\ calls[1].log[1].r = "ok"
    /\ calls[2].r = "err"
    /\ calls[2].log = <<Step(2, "err", "none")>>

\* C21: backup_path of an operation that keeps a backup is empty exactly when
\* nothing was created for it under temp_dir.
C21_BackupPathIffArtifact ==
    (Live /\ Len(calls) <= 1 /\ TheOp.temp_dir # <<>>) =>
        ((TheOp.backup_path = <<>>) <=>
            \A k \in 1..uuid : ~Exists(fs, Norm(TheOp.temp_dir) \o <<UuidStr(k)>>))

\* the operation i was rolled back with Ok by an earlier rollback call
RolledBackOk(i) ==
    \E j \in 1..Len(calls) :
        /\ calls[j].call = "rollback"
        /\ \E x \in 1..Len(calls[j].log) : calls[j].log[x].i = i /\ calls[j].log[x].r = "ok"

\* C22 as stated: while the Transaction lives, the backup of every operation
\* that has one exists at its backup_path, whatever execute and rollback
\* calls were made.
C22_BackupPersists ==
    Live => \A i \in 1..Len(ops) :
                ops[i].backup_path # <<>> => Exists(fs, Norm(ops[i].backup_path))

\* C22: while the Transaction lives, the backup of every operation that has
\* one exists at its backup_path, whatever execute and rollback calls were
\* made, except for a DeleteDirectory that was rolled back: its rollback
\* moves the backup to the source path.
C22_BackupPersistsUnlessMovedBack ==
    Live => \A i \in 1..Len(ops) :
                ops[i].backup_path # <<>> =>
                    \/ Exists(fs, Norm(ops[i].backup_path))
                    \/ ops[i].kind = "DeleteDirectory" /\ RolledBackOk(i)

\* C22's case: a DeleteFile executed in a Transaction that returned Ok and
\* rolled back with Ok, its backup still there
C22_Witness ==
    /\ Live
    /\ ExecutedThenRolledBack
    /\ calls[1].r = "ok"
    /\ calls[2].r = "ok"
    /\ \E i \in 1..Len(ops) :
            /\ ops[i].kind = "DeleteFile"
            /\ RolledBackOk(i)
            /\ IsFile(fs, Norm(ops[i].backup_path))

\* the path p is not the same in f and in g
Changed(f, g, p) ==
    \/ (p \in DOMAIN f) # (p \in DOMAIN g)
    \/ p \in DOMAIN f /\ p \in DOMAIN g /\ f[p] # g[p]

\* every path that differs between exec and now differs between before and exec
OnlyUndoes(before, exec, now) ==
    \A p \in DOMAIN exec \cup DOMAIN now :
        Changed(exec, now, p) => Changed(before, exec, p)

\* C24: when execute failed at operation k and the rollback that follows
\* changed the filesystem only through the rollback of operation k, every
\* path it changed is one that the failed execute of operation k had changed.
C24_FailedRollbackFrame ==
    (ExecutedThenRolledBack /\ Live /\ calls[1].r = "err"
        /\ Len(calls[2].log) >= 1
        /\ \A x \in 2..Len(calls[2].log) : calls[2].log[x].r # "ok") =>
        OnlyUndoes(ExecutedInOrder(1, Len(calls[1].log) - 1, pre, 0),
                   ExecutedInOrder(1, Len(calls[1].log), pre, 0), fs)

\* C25: after CreateDirectory.execute created a directory below one that
\* existed, the rollback leaves every path that existed before execute as
\* it was.
C25_CreateDirectoryRollbackFrame ==
    (ExecutedThenRolledBack /\ TheOp.kind = "CreateDirectory" /\ calls[1].r = "ok"
        /\ Len(Target) >= 2 /\ ~Exists(pre, Target) /\ IsDir(pre, Parent(Target))) =>
        \A p \in DOMAIN pre : p \in DOMAIN fs /\ fs[p] = pre[p]

\* C23: in copy_dir, when the entries of a popped directory are read and
\* gone through (files copied, subdirectories pushed), its destination
\* exists, and when the destination of a subdirectory is about to be created,
\* the destination of its parent exists.
C23_DestinationFirst ==
    /\ work.pc \in {"read", "entries"} => Exists(fs, Norm(work.dest))
    /\ (work.pc = "create" /\ Len(work.working_path) > work.input_root) =>
            Exists(fs, Parent(Norm(work.dest)))

\* C23's case: a file of a subdirectory is about to be copied into a
\* destination that the call created
C23_Witness ==
    /\ work.pc = "entries"
    /\ work.entries # <<>>
    /\ Len(work.working_path) > work.input_root
    /\ IsFile(fs, Norm(work.working_path \o <<Head(work.entries)>>))
    /\ ~Exists(pre, Norm(work.dest))
    /\ IsDir(fs, Norm(work.dest))

\* the call was made on a directory that exists with a destination that does not
CopyOfTree ==
    /\ work.pc = "loop"
    /\ work.stack # <<>>
    /\ IsDir(fs, Norm(work.stack[1]))
    /\ ~Exists(fs, Norm(work.output_root))
    /\ \A q \in Prefixes(Norm(work.output_root)) : ~IsFile(fs, q)

\* C26: a copy_dir call on a directory that exists ends with its work stack
\* empty, wherever the destination lies.
C26_CopyDirTerminates == CopyOfTree => <>(work.pc = "done")

====
